---- MODULE Spec2Model ----
(***************************************************************************)
(* Pawn-structure evaluation of SugaR (src/source/pawns.cpp): the          *)
(* Connected table builder Pawns::init, the structural classifier          *)
(* evaluate<Us>, the pawn hash table lookup Pawns::probe, and the king     *)
(* shelter evaluation Entry::evaluate_shelter / Entry::do_king_safety.     *)
(*                                                                         *)
(* Squares are 0..63 (a1 = 0, h1 = 7, a8 = 56), files and ranks 0..7.      *)
(* A Bitboard is the set of its squares.  A Score is a pair <<mg, eg>>.    *)
(***************************************************************************)
EXTENDS Integers, FiniteSets, Sequences, TLC

\* ------------------------------------------------------------- bounds
\* An evaluated position holds at most MaxPawns pawns, of either colour.
MaxPawns == 3
\* A position given to evaluate_shelter holds at most MaxShelterPawns pawns.
MaxShelterPawns == 2
\* The number of entries of a worker's pawn hash table.
TableSize == 2

\* ------------------------------------------------- types and geometry
WHITE == 0
BLACK == 1
Colors == {WHITE, BLACK}
Opp(c) == 1 - c

Squares == 0 .. 63
SQ_NONE == 64
Files == 0 .. 7

make_square(f, r) == r * 8 + f
file_of(s) == s % 8
rank_of(s) == s \div 8
relative_rank(c, s) == IF c = WHITE THEN rank_of(s) ELSE 7 - rank_of(s)
relative_square(c, s) == IF c = WHITE THEN s ELSE make_square(file_of(s), 7 - rank_of(s))
Up(c) == IF c = WHITE THEN 8 ELSE -8

\* The precomputed bitboard tables (FileBB, RankBB, AdjacentFilesBB,
\* ForwardRanksBB, ForwardFileBB, PawnAttackSpan, PassedPawnMask, PawnAttacks).
FileBB == [f \in Files |-> {t \in Squares : file_of(t) = f}]
RankBB == [r \in 0 .. 7 |-> {t \in Squares : rank_of(t) = r}]
AdjacentFilesBB ==
    [f \in Files |-> {t \in Squares : file_of(t) = f - 1 \/ file_of(t) = f + 1}]
ForwardRanksBB ==
    [c \in Colors |-> [r \in 0 .. 7 |->
        {t \in Squares : IF c = WHITE THEN rank_of(t) > r ELSE rank_of(t) < r}]]
ForwardFileBB ==
    [c \in Colors |-> [s \in Squares |->
        ForwardRanksBB[c][rank_of(s)] \cap FileBB[file_of(s)]]]
PawnAttackSpan ==
    [c \in Colors |-> [s \in Squares |->
        ForwardRanksBB[c][rank_of(s)] \cap AdjacentFilesBB[file_of(s)]]]
PassedPawnMask ==
    [c \in Colors |-> [s \in Squares |-> ForwardFileBB[c][s] \cup PawnAttackSpan[c][s]]]
PawnAttacksTab ==
    [c \in Colors |-> [s \in Squares |->
        {t \in Squares : /\ rank_of(t) = rank_of(s) + (IF c = WHITE THEN 1 ELSE -1)
                         /\ (file_of(t) = file_of(s) - 1 \/ file_of(t) = file_of(s) + 1)}]]

file_bb(f) == FileBB[f]
rank_bb(s) == RankBB[rank_of(s)]
adjacent_files_bb(f) == AdjacentFilesBB[f]
forward_ranks_bb(c, s) == ForwardRanksBB[c][rank_of(s)]
forward_file_bb(c, s) == ForwardFileBB[c][s]
pawn_attack_span(c, s) == PawnAttackSpan[c][s]
passed_pawn_mask(c, s) == PassedPawnMask[c][s]
PawnAttacks(c, s) == PawnAttacksTab[c][s]
pawn_attacks_bb(c, b) == UNION {PawnAttacks(c, s) : s \in b}
shift(c, b) == {s + Up(c) : s \in b} \cap Squares
DarkSquares == {t \in Squares : (file_of(t) + rank_of(t)) % 2 = 0}
popcount(b) == Cardinality(b)

\* Scores: make_score(mg, eg), added and subtracted component-wise.
make_score(mg, eg) == <<mg, eg>>
SCORE_ZERO == <<0, 0>>
mg_value(sc) == sc[1]
eg_value(sc) == sc[2]
ScoreAdd(a, b) == <<a[1] + b[1], a[2] + b[2]>>
ScoreSub(a, b) == <<a[1] - b[1], a[2] - b[2]>>

\* The sum of the scores f[x], x in DOMAIN f.
RECURSIVE ScoreSum(_)
ScoreSum(f) ==
    IF DOMAIN f = {} THEN SCORE_ZERO
    ELSE LET x == CHOOSE y \in DOMAIN f : TRUE
         IN ScoreAdd(f[x], ScoreSum([y \in DOMAIN f \ {x} |-> f[y]]))

\* C++ integer division truncates toward zero.
TruncDiv(a, b) == IF a >= 0 THEN a \div b ELSE -((-a) \div b)

\* ------------------------------------------------------------ positions
\* A position: the pawns of each colour, the kings, the castling rights.
pieces(pos, c) == IF c = WHITE THEN pos.wp ELSE pos.bp
king_of(pos, c) == IF c = WHITE THEN pos.wk ELSE pos.bk
is_pawn(pos, c, s) == s \in pieces(pos, c)

\* ------------------------------------------------------ score constants
Isolated == make_score(13, 16)
Backward == make_score(17, 11)
PawnScoresIsolatedRank3 == make_score(-5, 0)
PawnScoresConnectedPassed == make_score(-16, 16)
KingSafetyCompensationPawnScoresConnectedPassed == make_score(-5, 0)
ProtectedPassedPawn == make_score(5, 5)
Doubled == make_score(13, 40)

Seed == <<0, 13, 24, 18, 65, 100, 175, 330>>

\* Pawns::init, the body of the innermost loop: the cell for
\* opposed, phalanx, support and the 0-based rank r in RANK_2 .. RANK_7.
ConnectedV(opposed, phalanx, support, r) ==
    17 * support
      + ((Seed[r + 1] + (IF phalanx = 1 THEN TruncDiv(Seed[r + 2] - Seed[r + 1], 2) ELSE 0))
           \div (IF opposed = 1 THEN 2 ELSE 1))

\* ConnectedCell with the endgame factor taken from the 1-based rank.
ConnectedCell_oneBased(opposed, phalanx, support, r) ==
    LET v == ConnectedV(opposed, phalanx, support, r)
    IN make_score(v, TruncDiv(v * (r - 1), 4))

ConnectedCell(opposed, phalanx, support, r) ==
    LET v == ConnectedV(opposed, phalanx, support, r)
    IN make_score(v, TruncDiv(v * (r - 2), 4))

\* --------------------------------------------------------- evaluate<Us>
RANK_2 == 1
RANK_3 == 2
RANK_5 == 4
RANK_7 == 6
FILE_A == 0
FILE_H == 7

\* The flags of the pawn on s (lines 123-135).
opposedF(pos, Us, s) == pieces(pos, Opp(Us)) \cap forward_file_bb(Us, s) # {}
stoppersF(pos, Us, s) == pieces(pos, Opp(Us)) \cap passed_pawn_mask(Us, s)
leverF(pos, Us, s) == pieces(pos, Opp(Us)) \cap PawnAttacks(Us, s)
leverPushF(pos, Us, s) == pieces(pos, Opp(Us)) \cap PawnAttacks(Us, s + Up(Us))
doubledF(pos, Us, s) == (s - Up(Us)) \in pieces(pos, Us)
neighboursF(pos, Us, s) == pieces(pos, Us) \cap adjacent_files_bb(file_of(s))
phalanxF(pos, Us, s) == neighboursF(pos, Us, s) \cap rank_bb(s)
supportedF(pos, Us, s) == neighboursF(pos, Us, s) \cap rank_bb(s - Up(Us))
backwardF(pos, Us, s) ==
    /\ pieces(pos, Us) \cap pawn_attack_span(Opp(Us), s + Up(Us)) = {}
    /\ stoppersF(pos, Us, s) \cap (leverPushF(pos, Us, s) \cup {s + Up(Us)}) # {}

\* Bitboard XOR.
SymDiff(a, b) == (a \ b) \cup (b \ a)

\* IsPassed with the own pawns of the whole corridor, not only of the
\* file ahead, keeping a pawn out of passedPawns.
IsPassed_corridor(pos, Us, s) ==
    LET theirPawns == pieces(pos, Opp(Us))
        stoppers == stoppersF(pos, Us, s)
        lever == leverF(pos, Us, s)
        leverPush == leverPushF(pos, Us, s)
        supported == supportedF(pos, Us, s)
        phalanx == phalanxF(pos, Us, s)
    IN IF /\ SymDiff(SymDiff(stoppers, lever), leverPush) = {}
          /\ pieces(pos, Us) \cap passed_pawn_mask(Us, s) = {}
          /\ popcount(supported) >= popcount(lever) - 1
          /\ popcount(phalanx) >= popcount(leverPush)
       THEN TRUE
       ELSE IF stoppers = {s + Up(Us)} /\ relative_rank(Us, s) >= RANK_5
       THEN \E t \in shift(Us, supported) \ theirPawns :
                popcount(theirPawns \cap PawnAttacks(Us, t)) <= 1
       ELSE FALSE

\* Whether the pawn on s is entered in passedPawns[Us] (lines 141-154).
IsPassed(pos, Us, s) ==
    LET theirPawns == pieces(pos, Opp(Us))
        stoppers == stoppersF(pos, Us, s)
        lever == leverF(pos, Us, s)
        leverPush == leverPushF(pos, Us, s)
        supported == supportedF(pos, Us, s)
        phalanx == phalanxF(pos, Us, s)
    IN IF /\ SymDiff(SymDiff(stoppers, lever), leverPush) = {}
          /\ pieces(pos, Us) \cap forward_file_bb(Us, s) = {}
          /\ popcount(supported) >= popcount(lever) - 1
          /\ popcount(phalanx) >= popcount(leverPush)
       THEN TRUE
       ELSE IF stoppers = {s + Up(Us)} /\ relative_rank(Us, s) >= RANK_5
       THEN \E t \in shift(Us, supported) \ theirPawns :
                popcount(theirPawns \cap PawnAttacks(Us, t)) <= 1
       ELSE FALSE

PassedPawnsOf(pos, Us) == {s \in pieces(pos, Us) : IsPassed(pos, Us, s)}

\* The structural terms of the pawn on s (lines 157-176); the second
\* component is what the pawn adds to weakUnopposed[Us].
StructureTerm(pos, Us, s) ==
    LET opposed == opposedF(pos, Us, s)
        supported == supportedF(pos, Us, s)
        phalanx == phalanxF(pos, Us, s)
        unopp == IF opposed THEN 0 ELSE 1
        first ==
            IF supported \cup phalanx # {}
            THEN <<ConnectedCell(IF opposed THEN 1 ELSE 0, IF phalanx # {} THEN 1 ELSE 0,
                                 popcount(supported), relative_rank(Us, s)), 0>>
            ELSE IF neighboursF(pos, Us, s) = {}
            THEN <<ScoreAdd(ScoreSub(SCORE_ZERO, Isolated),
                            IF relative_rank(Us, s) = RANK_3
                            THEN PawnScoresIsolatedRank3 ELSE SCORE_ZERO), unopp>>
            ELSE IF backwardF(pos, Us, s)
            THEN <<ScoreSub(SCORE_ZERO, Backward), unopp>>
            ELSE <<SCORE_ZERO, 0>>
    IN IF doubledF(pos, Us, s) /\ supported = {}
       THEN <<ScoreSub(first[1], Doubled), first[2]>>
       ELSE first

\* passed1 (lines 181 and 263).
passed1F(pos, Us, s) == passed_pawn_mask(Us, s) \cap pieces(pos, Us) # {}

\* f0 / fp0 and f2 / fp2 (lines 186-197, 250-261).
FileLeft(f) == IF f > FILE_A THEN f - 1 ELSE f
FileRight(f) == IF f < FILE_H THEN f + 1 ELSE f

\* ProtectedRank stepping toward rank 1 for both colours.
ProtectedRank_unflipped(Us, rp1) == IF rp1 > RANK_2 THEN rp1 - 1 ELSE rp1

\* rpp for a pawn on rank rp1 (lines 199-218).
ProtectedRank(Us, rp1) ==
    IF Us = WHITE
    THEN (IF rp1 > RANK_2 THEN rp1 - 1 ELSE rp1)
    ELSE (IF rp1 < RANK_7 THEN rp1 + 1 ELSE rp1)

\* assert(false) of line 216 is not reached for the pawn on rank rp1.
ProtectedRankAssert(Us, rp1) == Us = WHITE \/ rp1 < RANK_7

\* The protected passed pawn term of the pawn on s (lines 179-236).
ProtectedTerm(pos, Us, s) ==
    LET f == file_of(s)
        rp1 == rank_of(s)
        fp0 == FileLeft(f)
        fp2 == FileRight(f)
        rpp == ProtectedRank(Us, rp1)
        p0 == IF fp0 # f THEN is_pawn(pos, Us, make_square(fp0, rpp)) ELSE FALSE
        protected_passed_pawn ==
            IF fp2 # f THEN p0 \/ is_pawn(pos, Us, make_square(fp2, rpp)) ELSE p0
    IN IF rpp # rp1 /\ passed1F(pos, Us, s) /\ protected_passed_pawn
       THEN ProtectedPassedPawn ELSE SCORE_ZERO

\* The king search of lines 290-299: the first square from a1 holding the
\* king of Us, SQUARE_NB (= SQ_NONE) when the scan runs off the board.
UsKingSquareOf(pos, Us) ==
    IF king_of(pos, Us) \in Squares THEN king_of(pos, Us) ELSE SQ_NONE

\* The connected passed term of the pawn on s in the second loop
\* (lines 244-312), given the passedPawns[Us] of the first loop.
ConnectedPassedTerm(pos, Us, s, passedPawns) ==
    LET f == file_of(s)
        f0 == FileLeft(f)
        f2 == FileRight(f)
        passed0 == \E r0 \in RANK_2 .. RANK_7 :
                      /\ is_pawn(pos, Us, make_square(f0, r0))
                      /\ make_square(f0, r0) \in passedPawns
        UsKingFile == file_of(UsKingSquareOf(pos, Us))
    IN IF f0 # f /\ passed1F(pos, Us, s) /\ passed0
       THEN ScoreAdd(PawnScoresConnectedPassed,
                     IF UsKingFile >= f0 /\ UsKingFile <= f2
                     THEN KingSafetyCompensationPawnScoresConnectedPassed
                     ELSE SCORE_ZERO)
       ELSE SCORE_ZERO

\* Whether the second loop searches for the king while scoring s.
SearchesKing(pos, Us, s) ==
    /\ FileLeft(file_of(s)) # file_of(s)
    /\ passed1F(pos, Us, s)
    /\ \E r0 \in RANK_2 .. RANK_7 :
          /\ is_pawn(pos, Us, make_square(FileLeft(file_of(s)), r0))
          /\ make_square(FileLeft(file_of(s)), r0) \in PassedPawnsOf(pos, Us)

\* The Score evaluate<Us> returns.
evaluateScore(pos, Us) ==
    LET pp == PassedPawnsOf(pos, Us)
    IN ScoreSum([s \in pieces(pos, Us) |->
                  ScoreAdd(ScoreAdd(StructureTerm(pos, Us, s)[1], ProtectedTerm(pos, Us, s)),
                           ConnectedPassedTerm(pos, Us, s, pp))])

RECURSIVE IntSum(_)
IntSum(f) ==
    IF DOMAIN f = {} THEN 0
    ELSE LET x == CHOOSE y \in DOMAIN f : TRUE
         IN f[x] + IntSum([y \in DOMAIN f \ {x} |-> f[y]])

\* No assertion of evaluate<Us> fails (lines 115, 216, 246, 298).
evaluateAsserts(pos, Us) ==
    /\ \A s \in pieces(pos, Us) : is_pawn(pos, Us, s)
    /\ \A s \in pieces(pos, Us) : ProtectedRankAssert(Us, rank_of(s))
    /\ \A s \in pieces(pos, Us) :
          SearchesKing(pos, Us, s) => UsKingSquareOf(pos, Us) # SQ_NONE

\* evaluate without the reset of kingSquares[Us] of line 107.
evaluate_keepKing(en, pos, Us) ==
    LET ourPawns == pieces(pos, Us)
    IN [en EXCEPT
          !.passedPawns[Us] = PassedPawnsOf(pos, Us),
          !.pawnAttacksSpan[Us] = UNION {pawn_attack_span(Us, s) : s \in ourPawns},
          !.weakUnopposed[Us] = IntSum([s \in ourPawns |-> StructureTerm(pos, Us, s)[2]]),
          !.semiopenFiles[Us] = Files \ {file_of(s) : s \in ourPawns},
          !.pawnAttacks[Us] = pawn_attacks_bb(Us, ourPawns),
          !.pawnsOnSquares[Us] =
              [c \in Colors |-> IF c = BLACK THEN popcount(ourPawns \cap DarkSquares)
                                ELSE popcount(ourPawns) - popcount(ourPawns \cap DarkSquares)]]

\* The fields of *e that evaluate<Us> writes (lines 105-120, 145, 153,
\* 162, 173), as the entry after the call.
evaluate(en, pos, Us) ==
    LET ourPawns == pieces(pos, Us)
    IN [en EXCEPT
          !.passedPawns[Us] = PassedPawnsOf(pos, Us),
          !.pawnAttacksSpan[Us] = UNION {pawn_attack_span(Us, s) : s \in ourPawns},
          !.weakUnopposed[Us] = IntSum([s \in ourPawns |-> StructureTerm(pos, Us, s)[2]]),
          !.semiopenFiles[Us] = Files \ {file_of(s) : s \in ourPawns},
          !.kingSquares[Us] = SQ_NONE,
          !.pawnAttacks[Us] = pawn_attacks_bb(Us, ourPawns),
          !.pawnsOnSquares[Us] =
              [c \in Colors |-> IF c = BLACK THEN popcount(ourPawns \cap DarkSquares)
                                ELSE popcount(ourPawns) - popcount(ourPawns \cap DarkSquares)]]

\* ------------------------------------------------------------ the entry
\* A Pawns::Entry of a freshly allocated table: every field zero.
FreshEntry ==
    [key |-> 0,
     scores |-> [c \in Colors |-> SCORE_ZERO],
     passedPawns |-> [c \in Colors |-> {}],
     pawnAttacks |-> [c \in Colors |-> {}],
     pawnAttacksSpan |-> [c \in Colors |-> {}],
     kingSquares |-> [c \in Colors |-> 0],
     kingSafety |-> [c \in Colors |-> SCORE_ZERO],
     weakUnopposed |-> [c \in Colors |-> 0],
     castlingRights |-> [c \in Colors |-> {}],
     semiopenFiles |-> [c \in Colors |-> {}],
     pawnsOnSquares |-> [c \in Colors |-> [d \in Colors |-> 0]],
     asymmetry |-> 0,
     openFiles |-> 0]

\* ------------------------------------------------- evaluate_shelter<Us>
ShelterStrength ==
    << <<7, 76, 84, 38, 7, 30, -19, 0>>,
       <<-3, 93, 52, -17, 12, -22, -35, 0>>,
       <<-6, 83, 25, -24, 15, 22, -39, 0>>,
       <<11, 83, 19, 8, 18, -21, -30, 0>> >>

\* StormDanger[UnBlocked] and StormDanger[BlockedByPawn].
StormDanger ==
    << << <<25, 79, 107, 51, 27, 0, 0, 0>>,
          <<15, 45, 131, 8, 25, 0, 0, 0>>,
          <<0, 42, 118, 56, 27, 0, 0, 0>>,
          <<3, 54, 110, 55, 26, 0, 0, 0>> >>,
       << <<0, 0, 37, 5, -48, 0, 0, 0>>,
          <<0, 0, 68, -12, 13, 0, 0, 0>>,
          <<0, 0, 111, -25, -3, 0, 0, 0>>,
          <<0, 0, 108, 14, 21, 0, 0, 0>> >> >>

Min(a, b) == IF a <= b THEN a ELSE b
Max(a, b) == IF a >= b THEN a ELSE b
MinOf(S) == CHOOSE x \in S : \A y \in S : x <= y

\* ourPawns and theirPawns of lines 378-380: the pawns on the king's rank
\* or ahead of it.
ShelterPawns(pos, Us, c, ksq) ==
    pieces(pos, c) \cap (forward_ranks_bb(Us, ksq) \cup rank_bb(ksq))

\* ShelterBase counting the own pawns behind the king too.
ShelterBase_anywhere(pos, Us, ksq) ==
    IF pieces(pos, Us) \cap file_bb(file_of(ksq)) # {} THEN 5 ELSE -5

\* Line 382: the value safety starts from.
ShelterBase(pos, Us, ksq) ==
    IF ShelterPawns(pos, Us, Us, ksq) \cap file_bb(file_of(ksq)) # {} THEN 5 ELSE -5

\* BlockRanks (line 376), as 0-based ranks.
BlockRanks(Us) == IF Us = WHITE THEN {1, 2} ELSE {6, 5}

\* The enemy pawns of line 384 before the test against ksq + Up.
EdgeBlockers(pos, Us, ksq) ==
    {t \in ShelterPawns(pos, Us, Opp(Us), ksq) :
        file_of(t) \in {FILE_A, FILE_H} /\ rank_of(t) \in BlockRanks(Us)}

\* ShelterBlock with White's BlockRanks for both colours.
ShelterBlock_whiteRanks(pos, Us, ksq) ==
    IF (ksq + Up(Us)) \in {t \in EdgeBlockers(pos, Us, ksq) : rank_of(t) \in {1, 2}}
    THEN 374 ELSE 0

\* Lines 384-385: what is added for an edge pawn blocked by the king.
\* For a king on its last rank ksq + Up is no square, and the left operand
\* is empty: no pawn stands on the king's rank or ahead of it.
ShelterBlock(pos, Us, ksq) ==
    IF (ksq + Up(Us)) \in EdgeBlockers(pos, Us, ksq) THEN 374 ELSE 0

\* Lines 390-400: the contribution of file f.
ShelterFile(pos, Us, ksq, f) ==
    LET ours == ShelterPawns(pos, Us, Us, ksq) \cap file_bb(f)
        theirs == ShelterPawns(pos, Us, Opp(Us), ksq) \cap file_bb(f)
        ourRank == IF ours # {} THEN MinOf({relative_rank(Us, s) : s \in ours}) ELSE 0
        theirRank == IF theirs # {} THEN MinOf({relative_rank(Us, s) : s \in theirs}) ELSE 0
        d == Min(f, 7 - f)
        blocked == IF ourRank # 0 /\ ourRank = theirRank - 1 THEN 2 ELSE 1
    IN ShelterStrength[d + 1][ourRank + 1]
         - (IF ourRank # 0 \/ theirRank # 0
            THEN StormDanger[blocked][d + 1][theirRank + 1] ELSE 0)

\* Lines 387-401: the sum over the king's file window.
ShelterFiles(pos, Us, ksq) ==
    LET center == Max(1, Min(6, file_of(ksq)))
    IN ShelterFile(pos, Us, ksq, center - 1) + ShelterFile(pos, Us, ksq, center)
         + ShelterFile(pos, Us, ksq, center + 1)

\* The value evaluate_shelter<Us>(pos, ksq) returns.
evaluate_shelter(pos, Us, ksq) ==
    ShelterBase(pos, Us, ksq) + ShelterBlock(pos, Us, ksq) + ShelterFiles(pos, Us, ksq)

\* --------------------------------------------------- do_king_safety<Us>
Distance(s, t) ==
    LET df == IF file_of(s) >= file_of(t) THEN file_of(s) - file_of(t)
              ELSE file_of(t) - file_of(s)
        dr == IF rank_of(s) >= rank_of(t) THEN rank_of(s) - rank_of(t)
              ELSE rank_of(t) - rank_of(s)
    IN Max(df, dr)

\* pos.can_castle(Us): the castling rights of Us.
can_castle(pos, Us) == {x \in pos.cr : x[1] = Us}
KING_SIDE == 0
QUEEN_SIDE == 1
SQ_G1 == 6
SQ_C1 == 2

\* Lines 415-419.
MinKingPawnDistance(pos, Us, ksq) ==
    IF pieces(pos, Us) = {} THEN 0
    ELSE MinOf({Distance(ksq, s) : s \in pieces(pos, Us)})

\* Lines 422-431: the Score do_king_safety<Us> returns.
KingSafetyScore(pos, Us, ksq) ==
    LET b0 == evaluate_shelter(pos, Us, ksq)
        b1 == IF <<Us, KING_SIDE>> \in pos.cr
              THEN Max(b0, evaluate_shelter(pos, Us, relative_square(Us, SQ_G1))) ELSE b0
        b2 == IF <<Us, QUEEN_SIDE>> \in pos.cr
              THEN Max(b1, evaluate_shelter(pos, Us, relative_square(Us, SQ_C1))) ELSE b1
    IN make_score(b2, -16 * MinKingPawnDistance(pos, Us, ksq))

\* Lines 413-414: the fields of the entry do_king_safety<Us> writes.
do_king_safety(en, pos, Us, ksq) ==
    [en EXCEPT !.kingSquares[Us] = ksq, !.castlingRights[Us] = can_castle(pos, Us)]

\* --------------------------------------------------------------- state
\* pos: the position of the current call; pc: the control point.
\*   pc = "aborted": an assertion of the code has failed in a build that
\*   checks assertions, and the process has ended.
\* Classifier: e, the entry being filled; prot, per colour, the pawns that
\*   got the ProtectedPassedPawn bonus.
\* Shelter: us and ksq, the arguments of evaluate_shelter; safety, its local.
\* Table builder: Connected, the table; loopIx, the loop variables
\*   <<opposed, phalanx, support, r>>; used, the cell a pawn was last scored
\*   with.
\* Hash table: table, the entries of one worker's table; ret, the slot of the
\*   entry the last probe returned; op, the last call; ran, the last
\*   probe ran the classifier; ksKey[slot][c], the key the slot held when
\*   do_king_safety<c> last ran on it, 0 when it has not run since the slot
\*   was last recomputed; evicted, the slots whose present record replaced
\*   a record that held a king snapshot.
VARIABLES pos, pc, e, prot, us, ksq, safety, Connected, loopIx, used,
          table, ret, op, ran, ksKey, evicted

vars == <<pos, pc, e, prot, us, ksq, safety, Connected, loopIx, used,
          table, ret, op, ran, ksKey, evicted>>
evalVars == <<e, prot>>
shelterVars == <<us, ksq, safety>>
initVars == <<Connected, loopIx, used>>
cacheVars == <<table, ret, op, ran, ksKey, evicted>>

NoProt == [c \in Colors |-> {}]
NoPosition == [wp |-> {}, bp |-> {}, wk |-> SQ_NONE, bk |-> SQ_NONE, cr |-> {}]
EvalIdle == e = FreshEntry /\ prot = NoProt
ShelterIdle == us = WHITE /\ ksq = SQ_NONE /\ safety = 0
InitIdle == Connected = <<>> /\ loopIx = <<>> /\ used = <<>>
CacheIdle == table = <<>> /\ ret = -1 /\ op = <<"none">> /\ ran = FALSE /\ ksKey = <<>>
             /\ evicted = {}

\* ------------------------------------------------ evaluated positions
RECURSIVE SubsetsUpTo(_, _)
SubsetsUpTo(U, n) ==
    IF n = 0 THEN {{}}
    ELSE LET P == SubsetsUpTo(U, n - 1)
         IN P \cup {S \cup {x} : S \in P, x \in U}

\* Pawns stand on the files a-c, ranks 2-7; the kings stand on their back
\* ranks, both on the b-file or both on the e-file.
EvalFiles == {0, 1, 2}
EvalKingFiles == {1, 4}
EvalPawnSquares == {make_square(f, r) : f \in EvalFiles, r \in RANK_2 .. RANK_7}
EvalPawnPairs ==
    {<<S \ B, B>> : <<S, B>> \in
        {pr \in SubsetsUpTo(EvalPawnSquares, MaxPawns) \X
                SubsetsUpTo(EvalPawnSquares, MaxPawns) : pr[2] \subseteq pr[1]}}
EvalPositions ==
    {[wp |-> pr[1], bp |-> pr[2], wk |-> make_square(k, 0), bk |-> make_square(k, 7),
      cr |-> {}] : pr \in EvalPawnPairs, k \in EvalKingFiles}

ProtectedSet(p, Us) == {s \in pieces(p, Us) : ProtectedTerm(p, Us, s) # SCORE_ZERO}

\* How a call of evaluate<Us> can end.  An assertion that fails ends the
\* process in a build that checks assertions; a build with NDEBUG goes on.
Outcomes(p, Us) ==
    IF evaluateAsserts(p, Us) THEN {"returns"} ELSE {"returns", "aborts"}

\* --------------------------------------- the classifier on one position
EvalInit ==
    /\ pos \in EvalPositions
    /\ e = FreshEntry
    /\ pc = "start"
    /\ prot = NoProt
    /\ ShelterIdle /\ InitIdle /\ CacheIdle

\* Line 357: e->scores[WHITE] = evaluate<WHITE>(pos, e).
EvaluateWhite ==
    /\ pc = "start"
    /\ \E o \in Outcomes(pos, WHITE) :
          IF o = "aborts"
          THEN pc' = "aborted" /\ UNCHANGED <<e, prot>>
          ELSE /\ e' = [evaluate(e, pos, WHITE) EXCEPT
                          !.scores[WHITE] = evaluateScore(pos, WHITE)]
               /\ prot' = [prot EXCEPT ![WHITE] = ProtectedSet(pos, WHITE)]
               /\ pc' = "white"
    /\ UNCHANGED <<pos, shelterVars, initVars, cacheVars>>

\* Line 358: e->scores[BLACK] = evaluate<BLACK>(pos, e).
EvaluateBlack ==
    /\ pc = "white"
    /\ \E o \in Outcomes(pos, BLACK) :
          IF o = "aborts"
          THEN pc' = "aborted" /\ UNCHANGED <<e, prot>>
          ELSE /\ e' = [evaluate(e, pos, BLACK) EXCEPT
                          !.scores[BLACK] = evaluateScore(pos, BLACK)]
               /\ prot' = [prot EXCEPT ![BLACK] = ProtectedSet(pos, BLACK)]
               /\ pc' = "done"
    /\ UNCHANGED <<pos, shelterVars, initVars, cacheVars>>

EvalNext == EvaluateWhite \/ EvaluateBlack

SpecEval == EvalInit /\ [][EvalNext]_vars

\* ------------------------------------------------- claims on evaluate
\* The mirror of a position: colours swapped, board flipped vertically.
FlipSq(s) == make_square(file_of(s), 7 - rank_of(s))
FlipBB(b) == {FlipSq(s) : s \in b}
Mirror(p) ==
    [wp |-> FlipBB(p.bp), bp |-> FlipBB(p.wp), wk |-> FlipSq(p.bk), bk |-> FlipSq(p.wk),
     cr |-> {}]

\* The entry the classifier leaves for position p.
Classified(p) ==
    LET w == [evaluate(FreshEntry, p, WHITE) EXCEPT !.scores[WHITE] = evaluateScore(p, WHITE)]
    IN [evaluate(w, p, BLACK) EXCEPT !.scores[BLACK] = evaluateScore(p, BLACK)]

CorridorFree(p, Us, s) ==
    \A t \in pieces(p, Opp(Us)) :
        ~ /\ (IF Us = WHITE THEN rank_of(t) > rank_of(s) ELSE rank_of(t) < rank_of(s))
          /\ file_of(t) \in {file_of(s) - 1, file_of(s), file_of(s) + 1}

\* An own pawn stands ahead of s on its file.
OwnPawnAhead(p, Us, s) ==
    \E t \in pieces(p, Us) :
        /\ file_of(t) = file_of(s)
        /\ (IF Us = WHITE THEN rank_of(t) > rank_of(s) ELSE rank_of(t) < rank_of(s))

\* C4 as stated: every own pawn with no enemy pawn in its corridor is in
\* passedPawns[Us] after evaluate<Us>, whatever the other own pawns.
C4_Original ==
    pc = "done" =>
        \A Us \in Colors : \A s \in pieces(pos, Us) :
            CorridorFree(pos, Us, s) => s \in e.passedPawns[Us]

\* C4 amended: every own pawn with no enemy pawn in its corridor and no own
\* pawn ahead of it on its file is in passedPawns[Us] after evaluate<Us>.
C4_PassedWhenFree ==
    pc = "done" =>
        \A Us \in Colors : \A s \in pieces(pos, Us) :
            (CorridorFree(pos, Us, s) /\ ~OwnPawnAhead(pos, Us, s))
                => s \in e.passedPawns[Us]

\* A free pawn with an own pawn ahead on an adjacent file and enemy pawns
\* on the board has been entered in passedPawns.
C4_Witness ==
    /\ pc = "done"
    /\ \E Us \in Colors : \E s \in pieces(pos, Us) :
          /\ CorridorFree(pos, Us, s)
          /\ ~OwnPawnAhead(pos, Us, s)
          /\ pieces(pos, Us) \cap pawn_attack_span(Us, s) # {}
          /\ pieces(pos, Opp(Us)) # {}
          /\ s \in e.passedPawns[Us]

\* An own pawn stands diagonally one step behind s.
ProtectedFromBehind(p, Us, s) ==
    \E t \in pieces(p, Us) :
        /\ rank_of(t) = rank_of(s) - (IF Us = WHITE THEN 1 ELSE -1)
        /\ (file_of(t) = file_of(s) - 1 \/ file_of(t) = file_of(s) + 1)

\* C8 as stated: the protected passed pawn bonus is added for s exactly
\* when s has no enemy pawn in its corridor and an own pawn stands
\* diagonally one step behind it.
C8_ProtectedIffPassed ==
    pc = "done" =>
        \A Us \in Colors : \A s \in pieces(pos, Us) :
            s \in prot[Us] <=> (CorridorFree(pos, Us, s) /\ ProtectedFromBehind(pos, Us, s))

\* C9 as stated: on a structurally valid position no assertion of
\* evaluate<WHITE> or evaluate<BLACK> fails.
C9_NoAssertionFails == pc # "aborted"

\* ---------------------------------------------------------- Pawns::init
ConnectedIndex == {0, 1} \X {0, 1} \X {0, 1, 2} \X (0 .. 7)
FirstIx == <<0, 0, 0, RANK_2>>
LastIx == <<1, 1, 2, RANK_7>>

\* The loop variables after one more pass of the four nested loops.
NextIx(ix) ==
    IF ix[4] < RANK_7 THEN <<ix[1], ix[2], ix[3], ix[4] + 1>>
    ELSE IF ix[3] < 2 THEN <<ix[1], ix[2], ix[3] + 1, RANK_2>>
    ELSE IF ix[2] < 1 THEN <<ix[1], ix[2] + 1, 0, RANK_2>>
    ELSE <<ix[1] + 1, 0, 0, RANK_2>>

InitInit ==
    /\ pos = NoPosition
    /\ pc = "init"
    /\ Connected = [ix \in ConnectedIndex |-> SCORE_ZERO]
    /\ loopIx = FirstIx
    /\ used = <<>>
    /\ EvalIdle /\ ShelterIdle /\ CacheIdle

\* One pass of the loop body (lines 335-338).
InitStep ==
    /\ pc = "init"
    /\ Connected' = [Connected EXCEPT
                       ![loopIx] = ConnectedCell(loopIx[1], loopIx[2], loopIx[3], loopIx[4])]
    /\ IF loopIx = LastIx
       THEN pc' = "ready" /\ UNCHANGED loopIx
       ELSE pc' = "init" /\ loopIx' = NextIx(loopIx)
    /\ UNCHANGED <<pos, used, evalVars, shelterVars, cacheVars>>

\* Line 158: a supported or phalanx pawn is scored with
\* Connected[opposed][bool(phalanx)][popcount(supported)][relative_rank].
UseConnected ==
    /\ pc = "ready"
    /\ \E o \in {0, 1}, ph \in {0, 1}, su \in {0, 1, 2}, rr \in RANK_2 .. RANK_7 :
          used' = <<o, ph, su, rr, Connected[<<o, ph, su, rr>>]>>
    /\ UNCHANGED <<pos, pc, Connected, loopIx, evalVars, shelterVars, cacheVars>>

InitNext == InitStep \/ UseConnected

SpecInit == InitInit /\ [][InitNext]_vars

\* The seed of the claim, indexed by the board rank 1 .. 8, and its v.
ClaimSeed == <<0, 13, 24, 18, 65, 100, 175, 330>>
ShiftRight(x, n) == IF n = 0 THEN x ELSE x \div 2
ClaimV(o, ph, su, rank) ==
    17 * su + ShiftRight(ClaimSeed[rank]
                           + (IF ph = 1
                              THEN TruncDiv(ClaimSeed[rank + 1] - ClaimSeed[rank], 2)
                              ELSE 0), o)

\* C7 as stated: the entry used for a pawn on board rank 2 .. 7 is
\* (v, v * (rank - 2) / 4), whose endgame value is never negative.
C7_Original ==
    used # <<>> =>
        LET rank == used[4] + 1
            v == ClaimV(used[1], used[2], used[3], rank)
        IN /\ used[5] = make_score(v, TruncDiv(v * (rank - 2), 4))
           /\ eg_value(used[5]) >= 0

\* C7 amended: the entry used for a pawn on board rank 2 .. 7 has the
\* midgame value v of the claim and the endgame value v * (rank - 3) / 4,
\* the division truncating toward zero: 0 on rank 3, and on rank 2 the
\* value -(v / 4), which is never positive.
C7_ConnectedCell ==
    used # <<>> =>
        LET rank == used[4] + 1
            v == ClaimV(used[1], used[2], used[3], rank)
        IN /\ mg_value(used[5]) = v
           /\ eg_value(used[5]) = TruncDiv(v * (rank - 3), 4)
           /\ rank = 3 => eg_value(used[5]) = 0
           /\ rank = 2 => eg_value(used[5]) = -(v \div 4) /\ eg_value(used[5]) <= 0

\* The opposed phalanx cell with two supporters on board rank 2 is used,
\* and its endgame value is negative.
C7_Witness ==
    /\ pc = "ready"
    /\ used # <<>>
    /\ used[1] = 1 /\ used[2] = 1 /\ used[3] = 2 /\ used[4] = RANK_2
    /\ eg_value(used[5]) < 0

\* ------------------------------------------ evaluate_shelter, stepwise
\* The pawns stand on the files a-c, ranks 2-7; the king of us stands on
\* the a- or b-file on its own first three ranks or its last rank, the
\* other king on the e-file.
ShelterKingRanks == {0, 1, 2, 7}
ShelterKingFiles == {0, 1}
ShelterPawnPairs ==
    {<<S \ B, B>> : <<S, B>> \in
        {pr \in SubsetsUpTo(EvalPawnSquares, MaxShelterPawns) \X
                SubsetsUpTo(EvalPawnSquares, MaxShelterPawns) : pr[2] \subseteq pr[1]}}
ShelterPosition(pr, c, k) ==
    [wp |-> pr[1], bp |-> pr[2],
     wk |-> IF c = WHITE THEN k ELSE make_square(4, 0),
     bk |-> IF c = BLACK THEN k ELSE make_square(4, 7),
     cr |-> {}]

ShelterInit ==
    /\ us \in Colors
    /\ \E f \in ShelterKingFiles, r \in ShelterKingRanks :
          ksq = relative_square(us, make_square(f, r))
    /\ \E pr \in ShelterPawnPairs :
          /\ ksq \notin pr[1] \cup pr[2]
          /\ pos = ShelterPosition(pr, us, ksq)
    /\ pc = "entry"
    /\ safety = 0
    /\ EvalIdle /\ InitIdle /\ CacheIdle

\* Lines 378-382.
ShelterStepBase ==
    /\ pc = "entry"
    /\ safety' = ShelterBase(pos, us, ksq)
    /\ pc' = "base"
    /\ UNCHANGED <<pos, us, ksq, evalVars, initVars, cacheVars>>

\* Lines 384-385.
ShelterStepBlock ==
    /\ pc = "base"
    /\ safety' = safety + ShelterBlock(pos, us, ksq)
    /\ pc' = "block"
    /\ UNCHANGED <<pos, us, ksq, evalVars, initVars, cacheVars>>

\* Lines 387-403.
ShelterStepFiles ==
    /\ pc = "block"
    /\ safety' = safety + ShelterFiles(pos, us, ksq)
    /\ pc' = "done"
    /\ UNCHANGED <<pos, us, ksq, evalVars, initVars, cacheVars>>

ShelterNext == ShelterStepBase \/ ShelterStepBlock \/ ShelterStepFiles

SpecShelter == ShelterInit /\ [][ShelterNext]_vars

\* An own pawn of c stands on the file of sq: anywhere, or ahead of sq.
OwnPawnOnFile(p, c, sq) == \E t \in pieces(p, c) : file_of(t) = file_of(sq)
OwnPawnOnFileAhead(p, c, sq) ==
    \E t \in pieces(p, c) :
        /\ file_of(t) = file_of(sq)
        /\ relative_rank(c, t) > relative_rank(c, sq)

\* C5 as stated: the base value is +5 exactly when an own pawn stands
\* anywhere on the king's file, and -5 otherwise.
C5_Original ==
    pc = "base" => safety = (IF OwnPawnOnFile(pos, us, ksq) THEN 5 ELSE -5)

\* C5 amended: the base value is +5 exactly when an own pawn stands on the
\* king's file ahead of the king, and -5 otherwise (an own pawn behind the
\* king does not count).
C5_BaseValue ==
    pc = "base" => safety = (IF OwnPawnOnFileAhead(pos, us, ksq) THEN 5 ELSE -5)

\* The base value was computed with own pawns on the king's file both
\* ahead of the king and behind it.
C5_Witness ==
    /\ pc = "base"
    /\ safety = 5
    /\ \E t \in pieces(pos, us) :
          file_of(t) = file_of(ksq) /\ relative_rank(us, t) < relative_rank(us, ksq)

\* An enemy pawn stands on the a- or h-file, on relative rank 2 or 3,
\* on the square directly ahead of the king.
EdgePawnAheadOfKing(p, c, sq) ==
    \E t \in pieces(p, Opp(c)) :
        /\ file_of(t) \in {0, 7}
        /\ relative_rank(c, t) \in {1, 2}
        /\ file_of(t) = file_of(sq)
        /\ relative_rank(c, t) = relative_rank(c, sq) + 1

\* The returned value without the term of lines 384-385.
WithoutBlockTerm(p, c, sq) == ShelterBase(p, c, sq) + ShelterFiles(p, c, sq)

\* C6 as stated: with such a pawn the returned value is lower than the
\* base value plus the same per-file table contributions.
C6_Original ==
    (pc = "done" /\ EdgePawnAheadOfKing(pos, us, ksq))
        => safety < WithoutBlockTerm(pos, us, ksq)

\* C6 amended: with such a pawn the returned value is higher, by exactly
\* 374, than the base value plus the same per-file table contributions.
C6_BlockedEdgePawn ==
    (pc = "done" /\ EdgePawnAheadOfKing(pos, us, ksq))
        => safety = WithoutBlockTerm(pos, us, ksq) + 374

\* evaluate_shelter<BLACK> has returned for a king on a7 with a white
\* pawn on a6.
C6_Witness ==
    /\ pc = "done"
    /\ us = BLACK
    /\ ksq = make_square(0, 6)
    /\ make_square(0, 5) \in pos.wp

\* ------------------------------------------------------- Pawns::probe
\* The pawn configurations probed, each with its pawn key: a5 b4 / g6,
\* a2 b2 / g6 and g2 h2 / h7.  Distinct configurations have distinct keys,
\* and no key is 0, the key of a fresh entry.
CachePawnConfigs ==
    { [wp |-> {32, 25}, bp |-> {46}, key |-> 1],
      [wp |-> {8, 9}, bp |-> {46}, key |-> 7],
      [wp |-> {14, 15}, bp |-> {55}, key |-> 2] }

\* The white king with White's castling rights; the black king stands on g8.
CacheKings ==
    { <<4, {<<WHITE, KING_SIDE>>, <<WHITE, QUEEN_SIDE>>}>>, <<4, {}>>, <<2, {}>> }

CachePositions ==
    {[wp |-> c.wp, bp |-> c.bp, wk |-> k[1], bk |-> 62, cr |-> k[2]] :
        c \in CachePawnConfigs, k \in CacheKings}

pawn_key(p) == (CHOOSE c \in CachePawnConfigs : c.wp = p.wp /\ c.bp = p.bp).key

\* pawnsTable[key]: the slot of a key.
SlotOf(key) == key % TableSize

\* A lookup that never finds the stored key.
ProbeHit_never(en, key) == en.key = key /\ en.key = 0

\* Line 353.
ProbeHit(en, key) == en.key = key

\* Lines 356-361: the entry after a miss.
ProbeMiss(en, p, key) ==
    LET e1 == [en EXCEPT !.key = key]
        e2 == [evaluate(e1, p, WHITE) EXCEPT !.scores[WHITE] = evaluateScore(p, WHITE)]
        e3 == [evaluate(e2, p, BLACK) EXCEPT !.scores[BLACK] = evaluateScore(p, BLACK)]
    IN [e3 EXCEPT
          !.openFiles = popcount(e3.semiopenFiles[WHITE] \cap e3.semiopenFiles[BLACK]),
          !.asymmetry =
              popcount(e3.passedPawns[WHITE] \cup e3.passedPawns[BLACK]
                         \cup SymDiff(e3.semiopenFiles[WHITE], e3.semiopenFiles[BLACK]))]

CacheInit ==
    /\ table = [s \in 0 .. TableSize - 1 |-> FreshEntry]
    /\ ksKey = [s \in 0 .. TableSize - 1 |-> [c \in Colors |-> 0]]
    /\ pos = NoPosition
    /\ ret = -1
    /\ op = <<"none">>
    /\ ran = FALSE
    /\ evicted = {}
    /\ pc = "search"
    /\ EvalIdle /\ ShelterIdle /\ InitIdle

\* Pawns::probe(p), lines 348-364.
Probe(p) ==
    LET key == pawn_key(p)
        slot == SlotOf(key)
        outcomes == IF ProbeHit(table[slot], key) THEN {"returns"}
                    ELSE Outcomes(p, WHITE) \cup Outcomes(p, BLACK)
    IN /\ pc = "search"
       /\ \E o \in outcomes :
             IF o = "aborts"
             THEN /\ pc' = "aborted"
                  /\ op' = <<"aborted">>
                  /\ UNCHANGED <<table, ksKey, evicted, ran, pos, ret>>
             ELSE /\ IF ProbeHit(table[slot], key)
                     THEN /\ ran' = FALSE
                          /\ UNCHANGED <<table, ksKey, evicted>>
                     ELSE /\ ran' = TRUE
                          /\ table' = [table EXCEPT
                                          ![slot] = ProbeMiss(table[slot], p, key)]
                          /\ ksKey' = [ksKey EXCEPT ![slot] = [c \in Colors |-> 0]]
                          /\ evicted' = IF \E c \in Colors : ksKey[slot][c] # 0
                                        THEN evicted \cup {slot} ELSE evicted \ {slot}
                  /\ pos' = p
                  /\ ret' = slot
                  /\ op' = <<"probe">>
                  /\ UNCHANGED pc
       /\ UNCHANGED <<evalVars, shelterVars, initVars>>

\* Entry::king_safety<c> on the entry the last probe returned, when the
\* king square and the castling rights are those of the snapshot: the
\* cached kingSafety[c] is returned.
KingSafetyCached(c) ==
    /\ pc = "search"
    /\ ret # -1
    /\ table[ret].kingSquares[c] = king_of(pos, c)
    /\ table[ret].castlingRights[c] = can_castle(pos, c)
    /\ op' = <<"cached", c>>
    /\ UNCHANGED <<table, ksKey, evicted, pos, ret, ran, pc, evalVars, shelterVars,
                   initVars>>

\* Entry::king_safety<c> otherwise: do_king_safety<c>(pos, ksq) runs and its
\* result is stored in kingSafety[c].
DoKingSafety(c) ==
    /\ pc = "search"
    /\ ret # -1
    /\ ~ /\ table[ret].kingSquares[c] = king_of(pos, c)
         /\ table[ret].castlingRights[c] = can_castle(pos, c)
    /\ table' = [table EXCEPT ![ret] =
                    [do_king_safety(table[ret], pos, c, king_of(pos, c)) EXCEPT
                        !.kingSafety[c] = KingSafetyScore(pos, c, king_of(pos, c))]]
    /\ ksKey' = [ksKey EXCEPT ![ret][c] = table[ret].key]
    /\ op' = <<"computed", c>>
    /\ UNCHANGED <<evicted, pos, ret, ran, pc, evalVars, shelterVars, initVars>>

Next ==
    \/ \E p \in CachePositions : Probe(p)
    \/ \E c \in Colors : KingSafetyCached(c)
    \/ \E c \in Colors : DoKingSafety(c)

Spec == CacheInit /\ [][Next]_vars

\* C1 as stated: the record a probe returns carries the key of the
\* position and the scores and aggregates the classifier computes for it.
C1_ProbeReturnsClassified ==
    op = <<"probe">> =>
        LET r == table[ret]
            want == ProbeMiss(FreshEntry, pos, pawn_key(pos))
        IN /\ r.key = pawn_key(pos)
           /\ r.scores = want.scores
           /\ r.passedPawns = want.passedPawns
           /\ r.pawnAttacks = want.pawnAttacks
           /\ r.pawnAttacksSpan = want.pawnAttacksSpan
           /\ r.semiopenFiles = want.semiopenFiles
           /\ r.weakUnopposed = want.weakUnopposed
           /\ r.openFiles = want.openFiles
           /\ r.asymmetry = want.asymmetry

\* C2: a probe whose key equals the key stored in the addressed slot does
\* not run the classifier and leaves every field of every record unchanged;
\* and a probe that follows a probe of the same pawn configuration returns
\* the same, unchanged record without a recomputation.
C2_HitChangesNothing ==
    [][ /\ (op' = <<"probe">> /\ ret' # -1 /\ table[ret'].key = pawn_key(pos'))
            => (table' = table /\ ran' = FALSE)
        /\ (op = <<"probe">> /\ op' = <<"probe">> /\ pawn_key(pos') = pawn_key(pos))
            => (ret' = ret /\ table'[ret'] = table[ret] /\ ran' = FALSE)
      ]_vars

\* A probe hit on a record that holds a king-safety snapshot of both
\* colours.
C2_Witness ==
    /\ op = <<"probe">>
    /\ ran = FALSE
    /\ \A c \in Colors : table[ret].kingSquares[c] = king_of(pos, c)

====
